---- MODULE Spec2Model ----
(***************************************************************************)
(* Two-phase commit replication engine of the distributed canary           *)
(* deployment system: Node (node.py), StateLog (state.py), TCPNetwork      *)
(* (tcp_network.py), launched as node-a (coordinator), node-b and node-c   *)
(* (participants) by run_nodes.py.                                         *)
(***************************************************************************)
EXTENDS Integers, Sequences, FiniteSets, TLC

(* ------------------------------ bounds --------------------------------- *)
\* deploy_version calls made during one run of the cluster
MaxCalls == 2
\* largest max_retries argument of those calls
MaxRetriesArg == 1
\* whole seconds that may pass between two reads of the clock without a
\* sleep or a vote deadline in between
MaxElapsed == 0
\* the runs with faults: MaxCallsFaulty deploy_version calls of up to
\* MaxRetriesFaulty attempts, during which MaxFaults faults happen: a message
\* dropped by the transport, a StateLog.append that raises, or a process
\* stopped and started again
MaxCallsFaulty == 1
MaxRetriesFaulty == 2
MaxFaults == 1
\* the runs of the HTTP API: MaxHttpRequests calls and /deploy requests, of
\* which MaxHttpDeploys pass the checks of handle_deploy and run deploy_version
MaxHttpRequests == 2
MaxHttpDeploys == 1
\* the runs of the dispatch loop alone: MaxFrames frames arrive on the peer
\* listeners of the nodes
MaxFrames == 2
\* the runs of the transport alone: each sending task of node-a calls send
\* MaxSends times, at most MaxConns connections are opened and MaxNetFaults
\* dials or connections fail
MaxSends == 2
MaxConns == 3
MaxNetFaults == 1

(* ------------------------- cluster configuration ----------------------- *)
Coordinator == "node-a"
Participants == {"node-b", "node-c"}
Nodes == {Coordinator} \cup Participants
PEERS_CONFIG == Nodes
PeerList == <<"node-a", "node-b", "node-c">>
role(n) == IF n = Coordinator THEN "coordinator" ELSE "participant"
peers(n) == SelectSeq(PeerList, LAMBDA p : p # n)

initial_model == "v1"
ModelSeq == <<"v2", "v3">>
ModelIds == {ModelSeq[k] : k \in 1..Len(ModelSeq)}

(* health gate thresholds: p95 in ms, error rate in percent *)
GateP95 == 200
GateErrorRate == 5
DefaultHealth == [p95 |-> 120, error_rate |-> 1]
HealthMetrics == {DefaultHealth, [p95 |-> 250, error_rate |-> 1]}

(* ------------------------------ records -------------------------------- *)
None == [version |-> 0, model_id |-> "", status |-> "NONE", txid |-> <<>>]
DeploymentState(v, m, s, t) == [version |-> v, model_id |-> m, status |-> s, txid |-> t]
InitialState == DeploymentState(1, initial_model, "COMMITTED", <<"initial">>)
WithStatus(s, st) == [s EXCEPT !.status = st]

\* txid = f"deploy-{node_id}-{next_version}-{int(time.time())}"
MakeTxid(n, nv, now) == <<"deploy", n, nv, now>>

IdleCall == [pc |-> "idle", node |-> Coordinator, new_model_id |-> "", max_retries |-> 0,
             attempt |-> 0, next_version |-> 0, txid |-> <<>>, candidate |-> None,
             decision |-> "", result |-> [status |-> ""]]

VARIABLES
    clock,          \* int(time.time()) of the coordinator's host
    log,            \* log[n]: the records of logs/<n>.log, in file order
    state,          \* Node.state
    last_committed, \* Node.last_committed (None when unset)
    running,        \* Node.running
    dispatching,    \* the process_messages task of the node is alive
    inbox,          \* Node.inbox
    vote_box,       \* Node._vote_box: txid -> list of votes
    calls,          \* the deploy_version invocations and their position
    votes_sent,     \* history: the PREPARE_RESP messages passed to send so far
    budget,         \* what the environment may still do in this run
    net             \* the TCPNetwork of node-a: writers, connections, sending tasks

vars == <<clock, log, state, last_committed, running, dispatching, inbox, vote_box,
          calls, votes_sent, budget, net>>

(* ------------------------------ StateLog ------------------------------- *)
\* StateLog.append: one line appended; when the write raises nothing is added
StateLogAppend(lg, s, ok) == IF ok THEN Append(lg, s) ELSE lg

\* StateLog.last_state: the last non-empty line, None for an empty file
last_state(lg) == IF Len(lg) = 0 THEN None ELSE lg[Len(lg)]

\* the outcomes an append can have in the current state
AppendOutcomes == IF budget.faults > 0 THEN {TRUE, FALSE} ELSE {TRUE}

(* ------------------------------ TCPNetwork ----------------------------- *)
\* TCPNetwork.send: the frame reaches the target's listener, whose callback is
\* inbox.put; a failed dial or write drops the message silently
NetSend(ib, target, msg, delivered) ==
    IF target \notin PEERS_CONFIG THEN ib
    ELSE IF delivered THEN [ib EXCEPT ![target] = Append(@, msg)]
    ELSE ib

\* for peer in targets: await self.network.send(peer, msg); the sends to the
\* peers in dropped fail
RECURSIVE Broadcast(_, _, _, _)
Broadcast(ib, targets, msg, dropped) ==
    IF Len(targets) = 0 THEN ib
    ELSE Broadcast(NetSend(ib, Head(targets), msg, Head(targets) \notin dropped),
                   Tail(targets), msg, dropped)

SendOutcomes == IF budget.faults > 0 THEN {TRUE, FALSE} ELSE {TRUE}

\* the tasks of one node that call self.network.send concurrently: the
\* deploy_version call and send_heartbeat_loop
NetTasks == {"deploy", "heartbeat"}
TaskMsgType(t) == IF t = "deploy" THEN "PREPARE_REQ" ELSE "HEARTBEAT"
\* the ids send can be called with: the keys of node_peers, which include the
\* node's own id, and an id that is not a key
SendTargets == PEERS_CONFIG \cup {"node-x"}
\* self.writers has no entry for the target
NoConn == 0
\* TCPNetwork.__init__: no writers, no connections; every task between sends
NetInit ==
    [writers |-> [p \in PEERS_CONFIG |-> NoConn],
     conns   |-> <<>>,
     tasks   |-> [t \in NetTasks |-> [pc |-> "idle", target |-> "", left |-> 0]],
     nsent   |-> 0]
\* writer and not writer.is_closing()
Writable(nw, target) ==
    /\ nw.writers[target] # NoConn
    /\ nw.conns[nw.writers[target]].open
\* writer.write(length); writer.write(payload) on the connection self.writers
\* names now; seq numbers the frames of the node in the order they are written
WriteFrame(nw, target, t) ==
    LET c == nw.writers[target]
        msg == [msg_type |-> TaskMsgType(t), sender |-> Coordinator, seq |-> nw.nsent + 1]
    IN [nw EXCEPT !.conns[c].frames = Append(@, msg), !.nsent = @ + 1]

(* ------------------------------ vote tally ----------------------------- *)
VoteBoxGet(vb, t) == IF t \in DOMAIN vb THEN vb[t] ELSE <<>>
\* self._vote_box.setdefault(txid, []).append(vote)
VoteBoxAdd(vb, t, v) ==
    [x \in (DOMAIN vb) \cup {t} |-> IF x = t THEN Append(VoteBoxGet(vb, t), v) ELSE vb[x]]
\* self._vote_box.pop(txid, [])
VoteBoxPop(vb, t) == [x \in (DOMAIN vb) \ {t} |-> vb[x]]
EmptyVoteBox == [x \in {} |-> <<>>]

(* ------------------------------ Node ----------------------------------- *)
_passes_health_gate(hm) == hm.p95 <= GateP95 /\ hm.error_rate <= GateErrorRate

InitNodes ==
    /\ clock = 0
    /\ log = [n \in Nodes |-> <<InitialState>>]
    /\ state = [n \in Nodes |-> InitialState]
    /\ last_committed = [n \in Nodes |-> InitialState]
    /\ running = [n \in Nodes |-> TRUE]
    /\ dispatching = [n \in Nodes |-> TRUE]
    /\ inbox = [n \in Nodes |-> <<>>]
    /\ vote_box = [n \in Nodes |-> EmptyVoteBox]
    /\ calls = [i \in 1..MaxCalls |-> IdleCall]
    /\ votes_sent = {}

Init ==
    /\ InitNodes
    /\ net = NetInit
    /\ budget = [calls |-> MaxCalls, max_retries |-> MaxRetriesArg,
                 max_elapsed |-> MaxElapsed, faults |-> 0]


\* Node.__init__ lines 33-47: the in-memory state a node builds from its log
RecoveredState(lg) == IF last_state(lg) # None THEN last_state(lg) ELSE InitialState
RecoveredLastCommitted(lg) ==
    IF RecoveredState(lg).status = "COMMITTED" THEN RecoveredState(lg) ELSE None

\* _apply_decision with the ABORT branch serving the record it logged
\* (self.state = abort_state) in place of the last committed state
ApplyDecisionServingAbort(st, lc, lg, s, decision, ok) ==
    IF decision = "COMMIT"
    THEN [state |-> WithStatus(s, "COMMITTED"),
          last_committed |-> WithStatus(s, "COMMITTED"),
          log |-> StateLogAppend(lg, WithStatus(s, "COMMITTED"), ok),
          raised |-> ~ok]
    ELSE LET abort_state == DeploymentState(s.version,
                                IF lc # None THEN lc.model_id ELSE "v1",
                                "ABORTED", s.txid)
         IN [state |-> IF ok THEN abort_state ELSE st,
             last_committed |-> lc,
             log |-> StateLogAppend(lg, abort_state, ok),
             raised |-> ~ok]

\* Node._apply_decision: the new (state, last_committed, log); raised tells
\* whether state_log.append raised, which ends the calling task
_apply_decision(st, lc, lg, s, decision, ok) ==
    IF decision = "COMMIT"
    THEN [state |-> WithStatus(s, "COMMITTED"),
          last_committed |-> WithStatus(s, "COMMITTED"),
          log |-> StateLogAppend(lg, WithStatus(s, "COMMITTED"), ok),
          raised |-> ~ok]
    ELSE LET abort_state == DeploymentState(s.version,
                                IF lc # None THEN lc.model_id ELSE "v1",
                                "ABORTED", s.txid)
         IN [state |-> IF ok /\ lc # None THEN lc ELSE st,
             last_committed |-> lc,
             log |-> StateLogAppend(lg, abort_state, ok),
             raised |-> ~ok]

\* _handle_prepare_request with the reply sent whether or not the append
\* raised (the error swallowed)
HandlePrepareRequestReplyingAnyway(n, hm, lg, message, ok) ==
    LET candidate == WithStatus(message.state, "PREPARED")
        vote == IF _passes_health_gate(hm) THEN "COMMIT" ELSE "ABORT"
    IN [log |-> StateLogAppend(lg, candidate, ok),
        raised |-> ~ok,
        reply |-> <<[msg_type |-> "PREPARE_RESP", sender |-> n,
                     txid |-> message.txid, vote |-> vote]>>]

\* _handle_prepare_request logging the candidate only when it votes COMMIT
HandlePrepareRequestLoggingCommitOnly(n, hm, lg, message, ok) ==
    LET candidate == WithStatus(message.state, "PREPARED")
        vote == IF _passes_health_gate(hm) THEN "COMMIT" ELSE "ABORT"
    IN [log |-> IF vote = "COMMIT" THEN StateLogAppend(lg, candidate, ok) ELSE lg,
        raised |-> ~ok,
        reply |-> IF ok
                  THEN <<[msg_type |-> "PREPARE_RESP", sender |-> n,
                          txid |-> message.txid, vote |-> vote]>>
                  ELSE <<>>]

\* _handle_prepare_request refusing a request while the last record of the
\* log is a PREPARED record waiting for its decision
HandlePrepareRequestBlockedByDangling(n, hm, lg, message, ok) ==
    LET candidate == WithStatus(message.state, "PREPARED")
        vote == IF _passes_health_gate(hm) THEN "COMMIT" ELSE "ABORT"
    IN IF last_state(lg).status = "PREPARED"
       THEN [log |-> lg, raised |-> FALSE, reply |-> <<>>]
       ELSE [log |-> StateLogAppend(lg, candidate, ok),
             raised |-> ~ok,
             reply |-> IF ok
                       THEN <<[msg_type |-> "PREPARE_RESP", sender |-> n,
                               txid |-> message.txid, vote |-> vote]>>
                       ELSE <<>>]

\* Node._handle_prepare_request: the record logged and the reply sent; no
\* reply is built when the append raises
_handle_prepare_request(n, hm, lg, message, ok) ==
    LET candidate == WithStatus(message.state, "PREPARED")
        vote == IF _passes_health_gate(hm) THEN "COMMIT" ELSE "ABORT"
    IN [log |-> StateLogAppend(lg, candidate, ok),
        raised |-> ~ok,
        reply |-> IF ok
                  THEN <<[msg_type |-> "PREPARE_RESP", sender |-> n,
                          txid |-> message.txid, vote |-> vote]>>
                  ELSE <<>>]

\* Node._handle_prepare_response
_handle_prepare_response(vb, message) == VoteBoxAdd(vb, message.txid, message.vote)

\* Decide with the coordinator counted among the voters (one vote more than
\* the peers can send is required)
DecideCountingSelf(votes, expected) ==
    IF Len(votes) < expected + 1 THEN "ABORT"
    ELSE IF \A k \in 1..Len(votes) : votes[k] = "COMMIT" THEN "COMMIT"
    ELSE "ABORT"

\* Node._collect_votes, from the pop on: the decision for the votes found
Decide(votes, expected) ==
    IF Len(votes) < expected THEN "ABORT"
    ELSE IF \A k \in 1..Len(votes) : votes[k] = "COMMIT" THEN "COMMIT"
    ELSE "ABORT"

\* the budget after an append with outcome ok and d dropped messages
Spent(ok, d) == [budget EXCEPT !.faults = @ - d - (IF ok THEN 0 ELSE 1)]

(* --------------------- inbound dispatch (process_messages) ------------- *)
\* hm: the value of self.health_metric when the request is handled
ProcessPrepareReq(n, hm) ==
    /\ running[n] /\ dispatching[n] /\ Len(inbox[n]) > 0
    /\ Head(inbox[n]).msg_type = "PREPARE_REQ"
    /\ \E ok \in AppendOutcomes, delivered \in SendOutcomes :
         LET message == Head(inbox[n])
             r == _handle_prepare_request(n, hm, log[n], message, ok)
             rest == [inbox EXCEPT ![n] = Tail(@)]
         IN /\ log' = [log EXCEPT ![n] = r.log]
            /\ dispatching' = [dispatching EXCEPT ![n] = ~r.raised]
            /\ IF Len(r.reply) = 0
               THEN /\ delivered
                    /\ inbox' = rest
                    /\ budget' = Spent(ok, 0)
                    /\ votes_sent' = votes_sent
               ELSE /\ inbox' = NetSend(rest, message.sender, r.reply[1], delivered)
                    /\ budget' = Spent(ok, IF delivered THEN 0 ELSE 1)
                    /\ votes_sent' = votes_sent \cup {r.reply[1]}
    /\ UNCHANGED <<net, clock, state, last_committed, running, vote_box, calls>>

ProcessPrepareResp(n) ==
    /\ running[n] /\ dispatching[n] /\ Len(inbox[n]) > 0
    /\ Head(inbox[n]).msg_type = "PREPARE_RESP"
    /\ vote_box' = [vote_box EXCEPT ![n] = _handle_prepare_response(@, Head(inbox[n]))]
    /\ inbox' = [inbox EXCEPT ![n] = Tail(@)]
    /\ UNCHANGED <<net, votes_sent, clock, log, state, last_committed, running, dispatching, calls, budget>>

\* Node._handle_decision
ProcessDecision(n) ==
    /\ running[n] /\ dispatching[n] /\ Len(inbox[n]) > 0
    /\ Head(inbox[n]).msg_type = "DECISION"
    /\ \E ok \in AppendOutcomes :
         LET message == Head(inbox[n])
             r == _apply_decision(state[n], last_committed[n], log[n],
                                  message.state, message.kind, ok)
         IN /\ state' = [state EXCEPT ![n] = r.state]
            /\ last_committed' = [last_committed EXCEPT ![n] = r.last_committed]
            /\ log' = [log EXCEPT ![n] = r.log]
            /\ dispatching' = [dispatching EXCEPT ![n] = ~r.raised]
            /\ budget' = Spent(ok, 0)
    /\ inbox' = [inbox EXCEPT ![n] = Tail(@)]
    /\ UNCHANGED <<net, votes_sent, clock, running, vote_box, calls>>

(* --------------------- deploy_version (one task per call) -------------- *)
\* the model ids named by the calls made so far
NamedModels == {calls[j].new_model_id : j \in {k \in 1..MaxCalls : calls[k].pc # "idle"}} \ {""}

\* deploy_version without the role check of lines 169-170
DeployVersionAnyRole(i, n, m, r, elapsed) ==
    /\ calls[i].pc = "idle"
    /\ i > 1 => calls[i - 1].pc # "idle"
    /\ budget.calls > 0
    /\ running[n]
    /\ m \in ModelIds
    /\ calls' = [calls EXCEPT ![i] =
                   [IdleCall EXCEPT !.pc = "start", !.node = n, !.new_model_id = m,
                                         !.max_retries = r, !.attempt = 1]]
    /\ clock' = clock + elapsed
    /\ budget' = [budget EXCEPT !.calls = @ - 1]
    /\ UNCHANGED <<net, votes_sent, log, state, last_committed, running, dispatching, inbox, vote_box>>

\* A caller invokes deploy_version(new_model_id, max_retries) on node n. Model
\* ids are interchangeable, so a call names a model id an earlier call named
\* or the first one of ModelSeq none has named yet. elapsed: the seconds gone
\* by since the clock was last read (it is read by deploy_version only).
DeployVersion(i, n, m, r, elapsed) ==
    /\ calls[i].pc = "idle"
    /\ i > 1 => calls[i - 1].pc # "idle"
    /\ budget.calls > 0
    /\ running[n]
    /\ \E k \in 1..Len(ModelSeq) :
         /\ m = ModelSeq[k]
         /\ \A j \in 1..(k - 1) : ModelSeq[j] \in NamedModels
    /\ calls' = [calls EXCEPT ![i] =
                   IF role(n) # "coordinator"
                   THEN [IdleCall EXCEPT !.pc = "done", !.result = [status |-> "error"]]
                   ELSE [IdleCall EXCEPT !.pc = "start", !.node = n, !.new_model_id = m,
                                         !.max_retries = r, !.attempt = 1]]
    /\ clock' = clock + elapsed
    /\ budget' = [budget EXCEPT !.calls = @ - 1]
    /\ UNCHANGED <<net, votes_sent, log, state, last_committed, running, dispatching, inbox, vote_box>>

\* max_retries of deploy_version when the caller passes none
DefaultMaxRetries == 3

\* the deploy_version calls made by handle_deploy so far
HttpDeploys == {j \in 1..MaxCalls : calls[j].max_retries = DefaultMaxRetries}

\* POST /deploy {model_id: m} on node n ("" stands for a body without
\* model_id): 403 on a node that is not the coordinator, 400 without model_id
\* or for the model id the node serves, otherwise deploy_version(m) with the
\* default max_retries
handle_deploy(i, n, m, elapsed) ==
    /\ calls[i].pc = "idle"
    /\ i > 1 => calls[i - 1].pc # "idle"
    /\ budget.calls > 0
    /\ running[n]
    /\ m \in ModelIds =>
         \E k \in 1..Len(ModelSeq) :
             /\ m = ModelSeq[k]
             /\ \A j \in 1..(k - 1) : ModelSeq[j] \in NamedModels
    /\ LET rejected(code) == [IdleCall EXCEPT !.pc = "done", !.node = n,
                                              !.new_model_id = m,
                                              !.result = [status |-> "error", code |-> code]]
       IN IF role(n) # "coordinator"
          THEN calls' = [calls EXCEPT ![i] = rejected(403)] /\ clock' = clock
          ELSE IF m = "" \/ m = state[n].model_id
          THEN calls' = [calls EXCEPT ![i] = rejected(400)] /\ clock' = clock
          ELSE /\ Cardinality(HttpDeploys) < MaxHttpDeploys
               /\ calls' = [calls EXCEPT ![i] =
                              [IdleCall EXCEPT !.pc = "start", !.node = n,
                                               !.new_model_id = m,
                                               !.max_retries = DefaultMaxRetries,
                                               !.attempt = 1]]
               /\ clock' = clock + elapsed
    /\ budget' = [budget EXCEPT !.calls = @ - 1]
    /\ UNCHANGED <<net, votes_sent, log, state, last_committed, running, dispatching, inbox, vote_box>>

\* the sets of peers whose message the transport may drop in one broadcast
DropChoices(n) ==
    {D \in SUBSET {peers(n)[k] : k \in 1..Len(peers(n))} : Cardinality(D) <= budget.faults}

\* lines 172-201: top of the attempt loop, the local append and the
\* PREPARE_REQ loop; entered from the call (attempt 1) or from the retry
\* sleep, during which the clock moved on
StartAttempt(i) ==
    /\ calls[i].pc \in {"start", "sleep"}
    /\ LET c == calls[i]
           n == c.node
           now == IF c.pc = "sleep" THEN clock + 1 ELSE clock
           next_version == IF c.attempt = 1 THEN state[n].version + 1 ELSE c.next_version
           txid == MakeTxid(n, next_version, now)
           candidate == DeploymentState(next_version, c.new_model_id, "PREPARED", txid)
           prepare_msg == [msg_type |-> "PREPARE_REQ", sender |-> n,
                           txid |-> txid, state |-> candidate]
       IN /\ clock' = now
          /\ \E ok \in AppendOutcomes :
               /\ log' = [log EXCEPT ![n] = StateLogAppend(@, candidate, ok)]
               /\ calls' = [calls EXCEPT ![i] =
                              [c EXCEPT !.pc = IF ok THEN "collect" ELSE "failed",
                                        !.next_version = next_version,
                                        !.txid = txid,
                                        !.candidate = candidate]]
               /\ IF ok
                  THEN \E D \in DropChoices(n) :
                         /\ inbox' = Broadcast(inbox, peers(n), prepare_msg, D)
                         /\ budget' = Spent(ok, Cardinality(D))
                  ELSE /\ inbox' = inbox
                       /\ budget' = Spent(ok, 0)
    /\ UNCHANGED <<net, votes_sent, state, last_committed, running, dispatching, vote_box>>

\* _collect_votes and _broadcast_decision lines 258-265: the poll that finds
\* all expected votes (timeout FALSE), or the deadline 3 s after the call
\* passing with votes missing (timeout TRUE); then pop, decide and the
\* DECISION loop
CollectVotes(i, timeout) ==
    /\ calls[i].pc = "collect"
    /\ LET c == calls[i]
           n == c.node
           expected == Len(peers(n))
           votes == VoteBoxGet(vote_box[n], c.txid)
           decision == Decide(votes, expected)
           decision_msg == [msg_type |-> "DECISION", sender |-> n,
                            kind |-> decision, state |-> c.candidate]
       IN /\ timeout <=> Len(votes) < expected
          /\ clock' = IF timeout THEN clock + 1 ELSE clock
          /\ vote_box' = [vote_box EXCEPT ![n] = VoteBoxPop(@, c.txid)]
          /\ calls' = [calls EXCEPT ![i] = [c EXCEPT !.pc = "apply", !.decision = decision]]
          /\ \E D \in DropChoices(n) :
               /\ inbox' = Broadcast(inbox, peers(n), decision_msg, D)
               /\ budget' = Spent(TRUE, Cardinality(D))
    /\ UNCHANGED <<net, votes_sent, log, state, last_committed, running, dispatching>>

\* the result deploy_version returns after the local apply (lines 210-233)
DeployResult(c, st) ==
    IF c.decision = "COMMIT"
    THEN [status |-> "committed", model_id |-> c.new_model_id,
          version |-> st.version, attempts |-> c.attempt]
    ELSE [status |-> "aborted", model_id |-> st.model_id,
          version |-> st.version, attempts |-> c.max_retries]

\* _broadcast_decision line 268 and deploy_version lines 210-233
ApplyLocal(i) ==
    /\ calls[i].pc = "apply"
    /\ LET c == calls[i]
           n == c.node
       IN \E ok \in AppendOutcomes :
            LET r == _apply_decision(state[n], last_committed[n], log[n],
                                     c.candidate, c.decision, ok)
            IN /\ state' = [state EXCEPT ![n] = r.state]
               /\ last_committed' = [last_committed EXCEPT ![n] = r.last_committed]
               /\ log' = [log EXCEPT ![n] = r.log]
               /\ budget' = Spent(ok, 0)
               /\ calls' = [calls EXCEPT ![i] =
                              IF r.raised THEN [c EXCEPT !.pc = "failed"]
                              ELSE IF c.decision = "ABORT" /\ c.attempt < c.max_retries
                              THEN [c EXCEPT !.pc = "sleep", !.attempt = c.attempt + 1]
                              ELSE [c EXCEPT !.pc = "done",
                                             !.result = DeployResult(c, r.state)]]
    /\ UNCHANGED <<net, votes_sent, clock, running, dispatching, inbox, vote_box>>

(* ------------------------------ environment ---------------------------- *)
\* the process of node n is stopped and started again: Node.__init__ on the
\* log the node left (the coordinator only between deploy_version calls)
Restart(n) ==
    /\ budget.faults > 0
    /\ n = Coordinator =>
         \A i \in 1..MaxCalls : calls[i].pc \in {"idle", "done", "failed"}
    /\ budget' = [budget EXCEPT !.faults = @ - 1]
    /\ state' = [state EXCEPT ![n] = RecoveredState(log[n])]
    /\ last_committed' = [last_committed EXCEPT ![n] = RecoveredLastCommitted(log[n])]
    /\ running' = [running EXCEPT ![n] = TRUE]
    /\ dispatching' = [dispatching EXCEPT ![n] = TRUE]
    /\ inbox' = [inbox EXCEPT ![n] = <<>>]
    /\ vote_box' = [vote_box EXCEPT ![n] = EmptyVoteBox]
    /\ UNCHANGED <<net, votes_sent, clock, log, calls>>

(* ------------------------------ specifications ------------------------- *)
Protocol ==
    \/ \E n \in Nodes, hm \in HealthMetrics : ProcessPrepareReq(n, hm)
    \/ \E n \in Nodes : ProcessPrepareResp(n)
    \/ \E n \in Nodes : ProcessDecision(n)
    \/ \E i \in 1..MaxCalls, n \in Nodes, m \in ModelIds,
          r \in 1..budget.max_retries, elapsed \in 0..budget.max_elapsed :
         DeployVersion(i, n, m, r, elapsed)
    \/ \E i \in 1..MaxCalls : StartAttempt(i)
    \/ \E i \in 1..MaxCalls, timeout \in BOOLEAN : CollectVotes(i, timeout)
    \/ \E i \in 1..MaxCalls : ApplyLocal(i)

\* the cluster with a reliable transport and disk: overlapping and
\* consecutive deploy_version calls
Next == Protocol
Spec == Init /\ [][Next]_vars

\* one deploy_version call with retries on a cluster whose transport drops
\* messages, whose disk fails and whose processes are restarted
InitFaulty ==
    /\ InitNodes
    /\ net = NetInit
    /\ budget = [calls |-> MaxCallsFaulty, max_retries |-> MaxRetriesFaulty,
                 max_elapsed |-> MaxElapsed, faults |-> MaxFaults]
NextFaulty ==
    \/ Protocol
    \/ \E n \in Nodes : Restart(n)
SpecFaulty == InitFaulty /\ [][NextFaulty]_vars

\* SpecFaulty with the scheduling of the asyncio loops: a node whose dispatch
\* task is alive handles the message at the head of its inbox, and a deploy
\* task takes its next step
FairFaulty ==
    /\ SpecFaulty
    /\ \A n \in Nodes : WF_vars(\E hm \in HealthMetrics : ProcessPrepareReq(n, hm))
    /\ \A n \in Nodes : WF_vars(ProcessPrepareResp(n))
    /\ \A n \in Nodes : WF_vars(ProcessDecision(n))
    /\ \A i \in 1..MaxCalls : WF_vars(StartAttempt(i))
    /\ \A i \in 1..MaxCalls : WF_vars(\E timeout \in BOOLEAN : CollectVotes(i, timeout))
    /\ \A i \in 1..MaxCalls : WF_vars(ApplyLocal(i))

\* the cluster behind its HTTP API, with a reliable transport and disk, the
\* health metric at the value Node.__init__ gives it and every vote in before
\* the deadline: /deploy requests on any node, and deploy_version called
\* directly on participants
InitHttp ==
    /\ InitNodes
    /\ net = NetInit
    /\ budget = [calls |-> MaxHttpRequests, max_retries |-> MaxRetriesArg,
                 max_elapsed |-> MaxElapsed, faults |-> 0]
NextHttp ==
    \/ \E n \in Nodes : ProcessPrepareReq(n, DefaultHealth)
    \/ \E n \in Nodes : ProcessPrepareResp(n)
    \/ \E n \in Nodes : ProcessDecision(n)
    \/ \E i \in 1..MaxCalls, n \in Nodes, m \in ModelIds \cup {initial_model, ""},
          elapsed \in 0..budget.max_elapsed :
         handle_deploy(i, n, m, elapsed)
    \/ \E i \in 1..MaxCalls, n \in Participants, m \in ModelIds,
          r \in 1..budget.max_retries, elapsed \in 0..budget.max_elapsed :
         DeployVersion(i, n, m, r, elapsed)
    \/ \E i \in 1..MaxCalls : StartAttempt(i)
    \/ \E i \in 1..MaxCalls : CollectVotes(i, FALSE)
    \/ \E i \in 1..MaxCalls : ApplyLocal(i)
SpecHttp == InitHttp /\ [][NextHttp]_vars

\* the frames a peer connection can carry to node n: a message of any protocol
\* type, naming another node as its sender, about a round for version 2
Frames(n) ==
    LET t == MakeTxid(Coordinator, 2, 0)
        candidate == DeploymentState(2, ModelSeq[1], "PREPARED", t)
    IN UNION {
         {[msg_type |-> "PREPARE_REQ", sender |-> p, txid |-> t, state |-> candidate]}
         \cup {[msg_type |-> "PREPARE_RESP", sender |-> p, txid |-> t, vote |-> v] :
                 v \in {"COMMIT", "ABORT"}}
         \cup {[msg_type |-> "DECISION", sender |-> p, kind |-> k, state |-> candidate] :
                 k \in {"COMMIT", "ABORT"}}
         : p \in Nodes \ {n}}

\* TCPNetwork._handle_peer_connection: a frame read from a connection to the
\* listener of n is decoded and handed to the callback, inbox.put
PeerFrame(n, msg) ==
    /\ budget.frames > 0
    /\ running[n]
    /\ inbox' = [inbox EXCEPT ![n] = Append(@, msg)]
    /\ budget' = [budget EXCEPT !.frames = @ - 1]
    /\ UNCHANGED <<net, clock, log, state, last_committed, running, dispatching, vote_box,
                   calls, votes_sent>>

\* the dispatch loops of the nodes fed by their peer listeners, no
\* deploy_version call running
InitDispatch ==
    /\ InitNodes
    /\ net = NetInit
    /\ budget = [calls |-> 0, max_retries |-> 0, max_elapsed |-> 0, faults |-> 0,
                 frames |-> MaxFrames]
NextDispatch ==
    \/ \E n \in Nodes : \E msg \in Frames(n) : PeerFrame(n, msg)
    \/ \E n \in Nodes, hm \in HealthMetrics : ProcessPrepareReq(n, hm)
    \/ \E n \in Nodes : ProcessPrepareResp(n)
    \/ \E n \in Nodes : ProcessDecision(n)
SpecDispatch == InitDispatch /\ [][NextDispatch]_vars

(* ------------------------- the transport alone ------------------------- *)
\* TCPNetwork.send up to its first await: return for an unknown id, start
\* _connect_to_peer when there is no usable writer, else write the frame
NetSendBegin(t, target) ==
    /\ net.tasks[t].pc = "idle"
    /\ net.tasks[t].left > 0
    /\ LET n1 == [net EXCEPT !.tasks[t].left = @ - 1]
       IN net' = IF target \notin PEERS_CONFIG THEN n1
                 ELSE IF ~Writable(net, target)
                      THEN [n1 EXCEPT !.tasks[t].pc = "dialing", !.tasks[t].target = target]
                      ELSE WriteFrame(n1, target, t)
    /\ UNCHANGED <<clock, log, state, last_committed, running, dispatching, inbox,
                   vote_box, calls, votes_sent, budget>>

\* _connect_to_peer returns to send: open_connection succeeded and
\* self.writers[target_id] names the new connection, or the three attempts
\* failed; send then writes on whatever self.writers.get(target_id) is
NetDialed(t, ok) ==
    /\ net.tasks[t].pc = "dialing"
    /\ IF ok THEN Len(net.conns) < MaxConns ELSE budget.faults > 0
    /\ LET target == net.tasks[t].target
           n1 == IF ok
                 THEN [net EXCEPT !.conns = Append(@, [target |-> target, frames |-> <<>>,
                                                       open |-> TRUE]),
                                  !.writers[target] = Len(net.conns) + 1]
                 ELSE net
           n2 == [n1 EXCEPT !.tasks[t].pc = "idle", !.tasks[t].target = ""]
       IN net' = IF Writable(n2, target) THEN WriteFrame(n2, target, t) ELSE n2
    /\ budget' = [budget EXCEPT !.faults = @ - (IF ok THEN 0 ELSE 1)]
    /\ UNCHANGED <<clock, log, state, last_committed, running, dispatching, inbox,
                   vote_box, calls, votes_sent>>

\* _handle_peer_connection of the listener that accepted connection c: read
\* the next frame and await on_message_callback(message)
NetDeliver(c) ==
    /\ c \in 1..Len(net.conns)
    /\ net.conns[c].open
    /\ Len(net.conns[c].frames) > 0
    /\ inbox' = [inbox EXCEPT ![net.conns[c].target] = Append(@, Head(net.conns[c].frames))]
    /\ net' = [net EXCEPT !.conns[c].frames = Tail(@)]
    /\ UNCHANGED <<clock, log, state, last_committed, running, dispatching,
                   vote_box, calls, votes_sent, budget>>

\* connection c breaks: its unread frames are lost and its writer is closing
NetClose(c) ==
    /\ c \in 1..Len(net.conns)
    /\ net.conns[c].open
    /\ budget.faults > 0
    /\ net' = [net EXCEPT !.conns[c].open = FALSE, !.conns[c].frames = <<>>]
    /\ budget' = [budget EXCEPT !.faults = @ - 1]
    /\ UNCHANGED <<clock, log, state, last_committed, running, dispatching, inbox,
                   vote_box, calls, votes_sent>>

\* the TCPNetwork of node-a used by two tasks, the listeners of its targets
\* filling their inbound queues; no dispatch loop consumes them
InitNet ==
    /\ InitNodes
    /\ net = [NetInit EXCEPT !.tasks = [t \in NetTasks |-> [@[t] EXCEPT !.left = MaxSends]]]
    /\ budget = [calls |-> 0, max_retries |-> 0, max_elapsed |-> 0,
                 faults |-> MaxNetFaults]
NextNet ==
    \/ \E t \in NetTasks, target \in SendTargets : NetSendBegin(t, target)
    \/ \E t \in NetTasks, ok \in BOOLEAN : NetDialed(t, ok)
    \/ \E c \in 1..MaxConns : NetDeliver(c)
    \/ \E c \in 1..MaxConns : NetClose(c)
SpecNet == InitNet /\ [][NextNet]_vars

(* ------------------------------ properties ----------------------------- *)
Records(n) == {log[n][k] : k \in 1..Len(log[n])}
RecordsWith(n, st) == {r \in Records(n) : r.status = st}
Calls == 1..MaxCalls
Inflight(n) == {inbox[n][k] : k \in 1..Len(inbox[n])}
\* the calls that can be made in the runs with faults
CallsFaulty == 1..MaxCallsFaulty

\* C1: any two COMMITTED records of the same version, in the log of one node
\* or in the logs of two nodes, carry the same model_id
C1_ValueAgreement ==
    \A n1 \in Nodes, n2 \in Nodes :
        \A r1 \in RecordsWith(n1, "COMMITTED"), r2 \in RecordsWith(n2, "COMMITTED") :
            r1.version = r2.version => r1.model_id = r2.model_id

\* C2: no txid has a COMMITTED record on one node and an ABORTED record on a
\* node (the same or another)
C2_AtomicOutcome ==
    \A n1 \in Nodes, n2 \in Nodes :
        \A r1 \in RecordsWith(n1, "COMMITTED"), r2 \in RecordsWith(n2, "ABORTED") :
            r1.txid # r2.txid

\* C3: a round whose decision is COMMIT has a COMMIT vote for its txid sent by
\* every peer of the coordinator
C3_CommitNeedsEveryVote ==
    \A i \in Calls :
        (calls[i].pc = "apply" /\ calls[i].decision = "COMMIT") =>
            \A k \in 1..Len(peers(calls[i].node)) :
                [msg_type |-> "PREPARE_RESP", sender |-> peers(calls[i].node)[k],
                 txid |-> calls[i].txid, vote |-> "COMMIT"] \in votes_sent

\* C4: once a deploy_version call has returned committed with version v for
\* model m, every node eventually serves (v, m, COMMITTED)
C4_ConvergenceAfterCommit ==
    \A i \in Calls :
        [](calls[i].result.status = "committed" =>
             <>(\A n \in Nodes :
                  /\ calls[i].result.status = "committed"
                  /\ state[n].status = "COMMITTED"
                  /\ state[n].version = calls[i].result.version
                  /\ state[n].model_id = calls[i].result.model_id))

C6_ServesLastCommitted ==
    \A n \in Nodes :
        /\ last_committed[n] # None
        /\ last_committed[n].status = "COMMITTED"
        /\ state[n] = last_committed[n]

\* C7: no log holds a COMMITTED and an ABORTED record with the same txid
C7_OneOutcomePerTxid ==
    \A n \in Nodes :
        \A r1 \in RecordsWith(n, "COMMITTED"), r2 \in RecordsWith(n, "ABORTED") :
            r1.txid # r2.txid

\* C8: in every log the COMMITTED records have strictly increasing versions,
\* and the version of a node's last committed state never decreases
LogVersionsIncrease ==
    \A n \in Nodes : \A j \in 1..Len(log[n]), k \in 1..Len(log[n]) :
        (j < k /\ log[n][j].status = "COMMITTED" /\ log[n][k].status = "COMMITTED")
            => log[n][j].version < log[n][k].version
C8_CommittedVersionsIncrease ==
    /\ []LogVersionsIncrease
    /\ [][\A n \in Nodes :
            (last_committed[n] # None /\ last_committed'[n] # None) =>
                last_committed'[n].version >= last_committed[n].version]_vars

\* C9: every COMMIT vote a participant has passed to send names a txid for
\* which the participant's log holds a PREPARED record
C9_PreparedBeforeVote ==
    \A v \in votes_sent :
        v.vote = "COMMIT" =>
            \E r \in RecordsWith(v.sender, "PREPARED") : r.txid = v.txid

\* both participants have sent a COMMIT vote for a round whose PREPARED record
\* they logged
C9_Witness ==
    \A n \in Participants :
        \E v \in votes_sent :
            /\ v.sender = n /\ v.vote = "COMMIT"
            /\ \E r \in RecordsWith(n, "PREPARED") : r.txid = v.txid

\* C10: a served COMMITTED state of a round has its COMMITTED record in the
\* node's log
C10_ServedStateIsLogged ==
    \A n \in Nodes :
        (state[n].status = "COMMITTED" /\ state[n].txid # <<"initial">>) =>
            \E r \in RecordsWith(n, "COMMITTED") : r.txid = state[n].txid

\* a terminal record (COMMITTED or ABORTED) of round t is in the log of n
Resolved(n, t) ==
    \E r \in Records(n) : r.txid = t /\ r.status \in {"COMMITTED", "ABORTED"}

\* C11: no participant holds a COMMITTED record of a round for which the
\* coordinator's log has no terminal record, i.e. the coordinator logs the
\* outcome before it sends the DECISION
C11_DecisionLoggedFirst ==
    \A n \in Participants : \A r \in RecordsWith(n, "COMMITTED") :
        r.txid # <<"initial">> => Resolved(Coordinator, r.txid)

\* C12: a restart of a node, whatever the last record of its log, leaves the
\* node with the current state and the last committed state it held in memory
C12_RestartRoundTrip ==
    [][\A n \in Nodes :
         Restart(n) => (state'[n] = state[n] /\ last_committed'[n] = last_committed[n])]_vars

\* the most recent COMMITTED record of a log, the bootstrap state when the
\* log has none
MostRecentCommitted(lg) ==
    LET idx == {k \in 1..Len(lg) : lg[k].status = "COMMITTED"}
    IN IF idx = {} THEN InitialState
       ELSE lg[CHOOSE k \in idx : \A j \in idx : j <= k]

\* C13: a node started on a log whose last record is PREPARED serves the most
\* recent COMMITTED record of that log, not the PREPARED one
C13_RecoveryIgnoresPrepared ==
    [][\A n \in Nodes :
         (Restart(n) /\ last_state(log[n]).status = "PREPARED") =>
             state'[n] = MostRecentCommitted(log[n])]_vars

\* C14: handling a DECISION whose txid the node has already resolved leaves
\* the node's current state and last committed state unchanged
C14_DecisionIdempotent ==
    [][\A n \in Nodes :
         (ProcessDecision(n) /\ Resolved(n, Head(inbox[n]).state.txid)) =>
             (state'[n] = state[n] /\ last_committed'[n] = last_committed[n])]_vars

\* C15: once the decision of a round has been taken, the coordinator's vote
\* tally has no entry for the txid of that round
C15_TallyClearedAfterRound ==
    \A i \in Calls :
        calls[i].pc \in {"apply", "sleep", "done"} =>
            calls[i].txid \notin DOMAIN vote_box[calls[i].node]

\* C16: the rounds the coordinator has started (one PREPARED record in its
\* log each) carry pairwise different txids
C16_TxidUnique ==
    \A j \in 1..Len(log[Coordinator]), k \in 1..Len(log[Coordinator]) :
        (j < k /\ log[Coordinator][j].status = "PREPARED"
               /\ log[Coordinator][k].status = "PREPARED")
            => log[Coordinator][j].txid # log[Coordinator][k].txid

\* the retry rule of deploy_version: the first round of a call proposes the
\* served version + 1, a round started after the retry sleep proposes the
\* version of the round before it under another txid
RetryStep ==
    \A i \in Calls :
        /\ (calls[i].pc = "start" /\ calls'[i].pc = "collect") =>
               calls'[i].candidate.version = state[calls[i].node].version + 1
        /\ (calls[i].pc = "sleep" /\ calls'[i].pc = "collect") =>
               /\ calls'[i].candidate.version = calls[i].candidate.version
               /\ calls'[i].txid # calls[i].txid

\* a call that returned committed reports the attempt that decided COMMIT and
\* the version its rounds proposed
CommittedResult ==
    \A i \in Calls :
        (calls[i].pc = "done" /\ calls[i].result.status = "committed") =>
            /\ calls[i].result.attempts = calls[i].attempt
            /\ calls[i].result.version = calls[i].candidate.version

\* C17: a retry of deploy_version proposes the same version under a fresh
\* txid, a call whose attempt k decides COMMIT returns committed with
\* attempts = k and that version, and after a call that retried returned
\* committed every node ends with that version
C17_RetryCommits ==
    /\ [][RetryStep]_vars
    /\ []CommittedResult
    /\ \A i \in CallsFaulty :
         []((calls[i].result.status = "committed" /\ calls[i].attempt > 1) =>
              <>(\A n \in Nodes :
                   /\ calls[i].result.status = "committed"
                   /\ state[n].version = calls[i].result.version))

\* the happy path of call i is off: a fault happened, a health gate failed (an
\* ABORT vote was sent), another call was made, or the round of the call
\* missed the vote deadline or was retried
Disturbed(i) ==
    \/ budget.faults < MaxFaults
    \/ \E v \in votes_sent : v.vote = "ABORT"
    \/ \E j \in Calls \ {i} : calls[j].pc # "idle"
    \/ calls[i].attempt > 1
    \/ calls[i].candidate # None /\ clock > calls[i].txid[4]

\* every node holds {version 2, the model of call i, COMMITTED}, the same
\* record on all nodes
AllHold(i) ==
    \A n \in Nodes :
        /\ state[n].version = 2
        /\ state[n].model_id = calls[i].new_model_id
        /\ state[n].status = "COMMITTED"
        /\ state[n] = state[Coordinator]

\* C18: from the bootstrap state, with passing health gates and no message
\* lost or late, one deploy_version call decides COMMIT on its first attempt
\* and every node eventually holds {version 2, its model, COMMITTED}
C18_HappyPath ==
    /\ [](\A i \in Calls :
            (calls[i].pc \in {"apply", "done"} /\ calls[i].candidate # None
                                                 /\ ~Disturbed(i)) =>
                calls[i].decision = "COMMIT")
    /\ \A i \in CallsFaulty :
         [](calls[i].pc = "collect" => <>(Disturbed(i) \/ AllHold(i)))

\* the call returned committed after one attempt with no fault, no failed
\* gate and no missed deadline, and all nodes hold version 2 of its model
C18_Witness ==
    \E i \in Calls :
        /\ calls[i].pc = "done" /\ calls[i].result.status = "committed"
        /\ calls[i].result.attempts = 1
        /\ calls[i].new_model_id = "v2"
        /\ ~Disturbed(i)
        /\ AllHold(i)

\* call i has started at least one round or is about to
Started(i) == calls[i].pc \notin {"idle"} /\ calls[i].result.status # "error"

\* the deploy task of call i can take its next step
CanStep(i) ==
    \/ calls[i].pc \in {"start", "sleep"} /\ ENABLED StartAttempt(i)
    \/ calls[i].pc = "collect" /\ ENABLED (\E timeout \in BOOLEAN : CollectVotes(i, timeout))
    \/ calls[i].pc = "apply" /\ ENABLED ApplyLocal(i)

\* call i has returned a result with status committed or aborted, with a
\* version and with attempts within max_retries
Returned(i) ==
    /\ calls[i].pc = "done"
    /\ calls[i].result.status \in {"committed", "aborted"}
    /\ calls[i].result.version >= 1
    /\ calls[i].result.attempts \in 1..calls[i].max_retries

\* C19: a deploy_version call on the coordinator never runs more than
\* max_retries rounds, and at every moment it has returned its result or its
\* next step (the append and sends, the vote deadline, the local apply) can
\* be taken
C19_CallTerminates ==
    \A i \in Calls :
        Started(i) =>
            /\ calls[i].attempt <= calls[i].max_retries
            /\ Returned(i) \/ CanStep(i)

\* C20: a node on which a StateLog.append has failed (its dispatch task or a
\* deploy task ended with the error) is no longer running
C20_LogFailureStopsNode ==
    \A n \in Nodes :
        (~dispatching[n] \/ \E i \in Calls : calls[i].pc = "failed" /\ calls[i].node = n)
            => ~running[n]

\* C29: the rounds of two deploy_version calls never propose the same version
\* for different model ids
C29_OverlappingCallsAgree ==
    \A i \in Calls, j \in Calls :
        (calls[i].candidate # None /\ calls[j].candidate # None
            /\ calls[i].candidate.version = calls[j].candidate.version)
        => calls[i].candidate.model_id = calls[j].candidate.model_id

\* C25: a step in which a node appends an ABORTED record while handling
\* ABORT for candidate s: the record carries s.version, s.txid and the
\* model_id of the node's last committed state, and afterwards the node's
\* current state is its last committed state
AbortRecordOk(n, s) ==
    /\ last_state(log'[n]).status = "ABORTED"
    /\ last_state(log'[n]).version = s.version
    /\ last_state(log'[n]).txid = s.txid
    /\ last_committed[n] # None
    /\ last_state(log'[n]).model_id = last_committed[n].model_id
    /\ state'[n] = last_committed'[n]
C25_AbortRecordContent ==
    [][/\ \A n \in Nodes :
            (ProcessDecision(n) /\ Head(inbox[n]).kind = "ABORT"
                                /\ Len(log'[n]) > Len(log[n]))
                => AbortRecordOk(n, Head(inbox[n]).state)
       /\ \A i \in Calls :
            (ApplyLocal(i) /\ calls[i].decision = "ABORT"
                           /\ Len(log'[calls[i].node]) > Len(log[calls[i].node]))
                => AbortRecordOk(calls[i].node, calls[i].candidate)]_vars

\* every PREPARE_REQ waiting in an inbox names a round whose PREPARED record
\* is in the log of its sender
RequestsAreLogged ==
    \A n \in Nodes : \A m \in Inflight(n) :
        m.msg_type = "PREPARE_REQ" =>
            \E r \in RecordsWith(m.sender, "PREPARED") : r.txid = m.txid

\* C28: a participant whose append of the PREPARED record fails sends no
\* PREPARE_RESP, a coordinator whose append of the candidate fails sends no
\* PREPARE_REQ, and the PREPARED record of a round is in the coordinator's log
\* when its PREPARE_REQ is out
C28_NoMessageWithoutRecord ==
    /\ []RequestsAreLogged
    /\ [][\A n \in Nodes :
            ((\E hm \in HealthMetrics : ProcessPrepareReq(n, hm)) /\ log'[n] = log[n]) =>
                /\ votes_sent' = votes_sent
                /\ \A p \in Nodes \ {n} : inbox'[p] = inbox[p]]_vars
    /\ [][\A i \in Calls :
            (StartAttempt(i) /\ log'[calls[i].node] = log[calls[i].node]) =>
                inbox' = inbox]_vars

\* the append of the PREPARED record failed on a participant handling the
\* first PREPARE_REQ it received: its dispatch ended, its log has the
\* bootstrap record only and no vote of it exists
C28_Witness ==
    \E n \in Participants :
        /\ ~dispatching[n] /\ inbox[n] = <<>>
        /\ log[n] = <<InitialState>>
        /\ \A v \in votes_sent : v.sender # n
        /\ \E i \in Calls : calls[i].pc = "collect"

\* the txid a message is about
MsgTxid(m) == IF m.msg_type = "DECISION" THEN m.state.txid ELSE m.txid

\* the log of n holds a PREPARED record of a round other than t for which it
\* holds no terminal record
Dangling(n, t) ==
    \E r \in RecordsWith(n, "PREPARED") : r.txid # t /\ ~Resolved(n, r.txid)

\* C26: a participant with a dangling PREPARED record of round T1 handles the
\* messages of a later round T2: it answers the PREPARE_REQ of T2 (unless its
\* append fails), and a DECISION COMMIT for T2 makes T2's state its current
\* and last committed state
C26_DanglingPrepareDoesNotBlock ==
    /\ [](\A n \in Participants :
            (running[n] /\ dispatching[n] /\ Len(inbox[n]) > 0
                /\ Dangling(n, MsgTxid(Head(inbox[n])))) =>
                ENABLED (\/ \E hm \in HealthMetrics : ProcessPrepareReq(n, hm)
                         \/ ProcessDecision(n)))
    /\ [][\A n \in Participants :
            (Len(inbox[n]) > 0 /\ Dangling(n, MsgTxid(Head(inbox[n])))) =>
                /\ ((\E hm \in HealthMetrics : ProcessPrepareReq(n, hm))
                        /\ (budget' = budget \/ log'[n] # log[n])) =>
                       /\ last_state(log'[n]) = WithStatus(Head(inbox[n]).state, "PREPARED")
                       /\ \E v \in votes_sent' :
                            v.sender = n /\ v.txid = Head(inbox[n]).txid
                /\ (ProcessDecision(n) /\ Head(inbox[n]).kind = "COMMIT") =>
                       /\ state'[n] = WithStatus(Head(inbox[n]).state, "COMMITTED")
                       /\ last_committed'[n] = state'[n]]_vars

\* a participant whose log holds the unresolved PREPARED record of a round T1
\* and, after it, the COMMITTED record of a round T2, serves T2's state
C26_Witness ==
    \E n \in Participants :
        \E j \in 1..Len(log[n]), k \in 1..Len(log[n]) :
            /\ j < k
            /\ log[n][j].status = "PREPARED" /\ ~Resolved(n, log[n][j].txid)
            /\ log[n][k].status = "COMMITTED" /\ log[n][k].txid # log[n][j].txid
            /\ state[n] = log[n][k] /\ last_committed[n] = log[n][k]
            /\ \E v \in votes_sent : v.sender = n /\ v.txid = log[n][k].txid

\* the log of n holds a PREPARED record of round t at version v and, after
\* it, an ABORTED record of round t at version v
PreparedThenAborted(n, t, v) ==
    \E j \in 1..Len(log[n]), k \in 1..Len(log[n]) :
        /\ j < k
        /\ log[n][j].status = "PREPARED" /\ log[n][j].txid = t /\ log[n][j].version = v
        /\ log[n][k].status = "ABORTED" /\ log[n][k].txid = t /\ log[n][k].version = v

\* round r (the coordinator's ABORTED record) was aborted on a failed health
\* gate: a participant voted ABORT for it
GateAborted(r) ==
    /\ r.status = "ABORTED"
    /\ \E v \in votes_sent : v.txid = r.txid /\ v.vote = "ABORT"

\* C24: with every message delivered, each terminal record of a round in a
\* log comes after a PREPARED record of that round and version, and once a
\* node has handled the DECISION of a round aborted on a failed health gate
\* its log holds PREPARED then ABORTED for that round and version
C24_PreparedThenAborted ==
    \A n \in Nodes :
        /\ \A k \in 1..Len(log[n]) :
             (log[n][k].status \in {"COMMITTED", "ABORTED"}
                 /\ log[n][k].txid # <<"initial">>) =>
                 \E j \in 1..(k - 1) :
                     /\ log[n][j].status = "PREPARED"
                     /\ log[n][j].txid = log[n][k].txid
                     /\ log[n][j].version = log[n][k].version
        /\ \A r \in Records(Coordinator) :
             (GateAborted(r) /\ \A m \in Inflight(n) : MsgTxid(m) # r.txid) =>
                 PreparedThenAborted(n, r.txid, r.version)

\* a round was aborted on a failed health gate, no message of it is waiting,
\* and every node's log holds its PREPARED and then its ABORTED record
C24_Witness ==
    \E r \in Records(Coordinator) :
        /\ GateAborted(r)
        /\ \A n \in Nodes :
             /\ \A m \in Inflight(n) : MsgTxid(m) # r.txid
             /\ PreparedThenAborted(n, r.txid, r.version)

\* the call or request in slot i returned an error and changed nothing else
RejectedWithoutEffect(i) ==
    /\ calls'[i].pc = "done"
    /\ calls'[i].result.status = "error"
    /\ UNCHANGED <<net, log, inbox, state, last_committed, vote_box, votes_sent>>

\* C22: deploy_version called on a node that is not the coordinator, and a
\* /deploy request made on such a node or naming the model id the node
\* serves, return an error; no record is appended, no message is sent and the
\* current and last committed states stay as they are
C22_OnlyCoordinatorDeploys ==
    [][/\ \A i \in Calls, n \in Participants, m \in ModelIds, r \in 1..MaxRetriesArg,
             elapsed \in 0..MaxElapsed :
            DeployVersion(i, n, m, r, elapsed) => RejectedWithoutEffect(i)
       /\ \A i \in Calls, n \in Nodes, m \in ModelIds \cup {initial_model},
             elapsed \in 0..MaxElapsed :
            (handle_deploy(i, n, m, elapsed)
                /\ (role(n) # "coordinator" \/ m = state[n].model_id))
            => RejectedWithoutEffect(i)]_vars

\* deploy_version was called on a participant and returned its error, a
\* /deploy request naming the served model was rejected by the coordinator,
\* and no round was started
C22_Witness ==
    \E i \in Calls, j \in Calls :
        /\ calls[i].pc = "done" /\ calls[i].result = [status |-> "error"]
        /\ calls[j].pc = "done" /\ calls[j].result = [status |-> "error", code |-> 400]
        /\ calls[j].node = Coordinator
        /\ calls[j].new_model_id = state[Coordinator].model_id
        /\ \A n \in Nodes : log[n] = <<InitialState>> /\ inbox[n] = <<>>

\* C23: a participant that handles a PREPARE_RESP leaves its vote tally, log
\* and state unchanged, and a coordinator that handles a PREPARE_REQ appends
\* nothing to its log and sends no PREPARE_RESP
C23_RoleDependentDispatch ==
    [][/\ \A n \in Participants :
            ProcessPrepareResp(n) =>
                (vote_box'[n] = vote_box[n] /\ log'[n] = log[n] /\ state'[n] = state[n])
       /\ (\E hm \in HealthMetrics : ProcessPrepareReq(Coordinator, hm)) =>
              (log'[Coordinator] = log[Coordinator] /\ votes_sent' = votes_sent)]_vars


\* the frames of node-a in the inbound queue of b, as their write numbers
FromCoordinator(b) ==
    SelectSeq(inbox[b], LAMBDA m : m.sender = Coordinator /\ "seq" \in DOMAIN m)

\* C21: the messages node-a passed to send for b that were delivered are in
\* b's inbound queue in the order node-a wrote them, whichever tasks sent
\* them and however often the connection was dialled
C21_PairFifo ==
    \A b \in Nodes \ {Coordinator} :
        \A j, k \in 1..Len(FromCoordinator(b)) :
            j < k => FromCoordinator(b)[j].seq < FromCoordinator(b)[k].seq

\* C27: no inbound queue holds a message sent by its own node, and send with
\* the node's own id opens no connection and so writes no frame
C27_NoSelfMessaging ==
    /\ \A n \in Nodes : \A k \in 1..Len(inbox[n]) : inbox[n][k].sender # n
    /\ \A c \in 1..Len(net.conns) : net.conns[c].target # Coordinator

====
